---------------------------- MODULE Spec2Model ----------------------------
(***************************************************************************)
(* Model of KULpubScheduleToICS.py and calevent.py: the scan of the flat   *)
(* list of one-row schedule tables into CalEvent records, the timestamp    *)
(* reconstruction, and the conversion to an ics calendar.                  *)
(*                                                                         *)
(* Python strings are sequences of one-character strings, so that strip,   *)
(* zfill, the two regular expressions and the f-strings are computed and   *)
(* not assumed.  Python's None is the value None below.  A call that can   *)
(* raise returns Ok(value) or Raise(exception name).                       *)
(***************************************************************************)
EXTENDS Integers, Sequences, FiniteSets, TLC

VARIABLES
    page,        \* what requests.get/BeautifulSoup deliver: the children of body > center
    year,        \* arrow.get().year, the system's current year
    tables_lst,  \* main: the tables of the center element, in page order
    event_list,  \* main: the CalEvents found so far
    cur_ind,     \* main: the scan cursor
    stop_ind,    \* main: len(tables_lst) - 1
    pc,          \* position in main (or in the function under check)
    err,         \* the exception that ended the run, "none" while it runs
    failed_at,   \* the position at which the exception was raised
    ics_file,    \* ./schedule.ics: "unchanged", "truncated" or "written"
    calendar,    \* the entries of the ics.Calendar built by conv_to_ics_calendar
    date,        \* construct_timestamp: its date argument
    time,        \* construct_timestamp: its time argument
    timestamp    \* construct_timestamp: its result

vars == <<page, year, tables_lst, event_list, cur_ind, stop_ind, pc, err,
          failed_at, ics_file, calendar, date, time, timestamp>>

-----------------------------------------------------------------------------
(* Python values *)

\* None: a one-element sequence that no string (a sequence of single
\* characters) can equal.
None == <<"None">>

Ok(v) == [ok |-> TRUE, val |-> v, err |-> "none"]

Raise(e) == [ok |-> FALSE, val |-> <<>>, err |-> e]

Digits == <<"0", "1", "2", "3", "4", "5", "6", "7", "8", "9">>

DigitChars == {Digits[i] : i \in 1..Len(Digits)}

\* str.strip() and the regex class \s: ASCII whitespace
SpaceChars == {" ", "\t", "\n", "\r", "\f"}

LetterChars ==
    {"a", "b", "c", "d", "e", "f", "g", "h", "i", "j", "k", "l", "m", "n",
     "o", "p", "q", "r", "s", "t", "u", "v", "w", "x", "y", "z",
     "A", "B", "C", "D", "E", "F", "G", "H", "I", "J", "K", "L", "M", "N",
     "O", "P", "Q", "R", "S", "T", "U", "V", "W", "X", "Y", "Z"}

\* the regex class \w
WordChars == LetterChars \cup DigitChars \cup {"_"}

DigitVal(c) == (CHOOSE i \in 1..Len(Digits) : Digits[i] = c) - 1

RECURSIVE ToInt(_)
\* int() of a non-empty string of digits
ToInt(s) ==
    IF Len(s) = 0 THEN 0
    ELSE 10 * ToInt(SubSeq(s, 1, Len(s) - 1)) + DigitVal(s[Len(s)])

RECURSIVE IntToStr(_)
\* str() of a natural number, as the f-string of construct_timestamp formats the year
IntToStr(n) ==
    IF n < 10 THEN <<Digits[n + 1]>>
    ELSE IntToStr(n \div 10) \o <<Digits[(n % 10) + 1]>>

RECURSIVE LStrip(_)
LStrip(s) ==
    IF Len(s) > 0 /\ s[1] \in SpaceChars THEN LStrip(Tail(s)) ELSE s

RECURSIVE RStrip(_)
RStrip(s) ==
    IF Len(s) > 0 /\ s[Len(s)] \in SpaceChars
    THEN RStrip(SubSeq(s, 1, Len(s) - 1)) ELSE s

\* mutant: the string is returned as it is, not stripped
sanitize_string_NoStrip(str_in) ==
    IF str_in = None THEN Raise("AttributeError") ELSE Ok(str_in)

\* str.strip() applied to None raises AttributeError
sanitize_string(str_in) ==
    IF str_in = None THEN Raise("AttributeError")
    ELSE Ok(LStrip(RStrip(str_in)))

\* str.zfill(width) of a string of digits
RECURSIVE zfill(_, _)
zfill(s, width) == IF Len(s) >= width THEN s ELSE zfill(<<"0">> \o s, width)

-----------------------------------------------------------------------------
(* re.match: a pattern is a sequence of items [cls, min, many]; each item  *)
(* matches characters of the class cls, at least min of them, and greedily *)
(* as many as it can when many is TRUE.  The match is anchored at the      *)
(* start of the string only, and backtracks as Python's engine does: the   *)
(* first item takes the longest run that lets the rest match.              *)

NoMatch == <<-1>>

One(chars) == [cls |-> chars, min |-> 1, many |-> FALSE]

Plus(chars) == [cls |-> chars, min |-> 1, many |-> TRUE]

Star(chars) == [cls |-> chars, min |-> 0, many |-> TRUE]

RECURSIVE RunLen(_, _, _)
\* the number of consecutive characters of cls in s after its first p characters
RunLen(cls, s, p) ==
    IF p < Len(s) /\ s[p + 1] \in cls THEN 1 + RunLen(cls, s, p + 1) ELSE 0

RECURSIVE MatchFrom(_, _, _, _)
RECURSIVE TryLen(_, _, _, _, _)
\* the end offsets (as m.end() counts them) of the items k.. of pat, matched
\* after the first p characters of s
MatchFrom(pat, k, s, p) ==
    IF k > Len(pat) THEN <<>>
    ELSE LET run == RunLen(pat[k].cls, s, p)
             hi  == IF pat[k].many THEN run ELSE IF run > 0 THEN 1 ELSE 0
         IN  TryLen(pat, k, s, p, hi)

TryLen(pat, k, s, p, n) ==
    IF n < pat[k].min THEN NoMatch
    ELSE LET rest == MatchFrom(pat, k + 1, s, p + n)
         IN  IF rest # NoMatch THEN <<p + n>> \o rest
             ELSE TryLen(pat, k, s, p, n - 1)

\* re.match(pattern, s): the end offset of each item, or NoMatch (None)
ReMatch(pat, s) == MatchFrom(pat, 1, s, 0)

\* r"(\d+:\d+)\s*\w+\s*(\d+:\d+)"
REGEXPR_TIME_RANGE ==
    <<Plus(DigitChars), One({":"}), Plus(DigitChars),
      Star(SpaceChars), Plus(WordChars), Star(SpaceChars),
      Plus(DigitChars), One({":"}), Plus(DigitChars)>>

\* r"(\d+)\.(\d+)"
REGEXPR_Date == <<Plus(DigitChars), One({"."}), Plus(DigitChars)>>

-----------------------------------------------------------------------------
(* arrow *)

IsLeap(y) == (y % 4 = 0 /\ y % 100 # 0) \/ y % 400 = 0

DaysIn(y, m) ==
    IF m = 2 THEN (IF IsLeap(y) THEN 29 ELSE 28)
    ELSE IF m \in {4, 6, 9, 11} THEN 30 ELSE 31

AllDigits(s) == \A i \in 1..Len(s) : s[i] \in DigitChars

\* arrow.get(string) for the one shape construct_timestamp builds,
\* "YYYY-MM-DD HH:mm": the fields at their fixed widths and a date and time
\* that exist, else the parser's error.
ArrowGet(s) ==
    IF /\ Len(s) = 16
       /\ s[5] = "-" /\ s[8] = "-" /\ s[11] = " " /\ s[14] = ":"
       /\ AllDigits(SubSeq(s, 1, 4)) /\ AllDigits(SubSeq(s, 6, 7))
       /\ AllDigits(SubSeq(s, 9, 10)) /\ AllDigits(SubSeq(s, 12, 13))
       /\ AllDigits(SubSeq(s, 15, 16))
    THEN LET y  == ToInt(SubSeq(s, 1, 4))
             mo == ToInt(SubSeq(s, 6, 7))
             d  == ToInt(SubSeq(s, 9, 10))
             h  == ToInt(SubSeq(s, 12, 13))
             mi == ToInt(SubSeq(s, 15, 16))
         IN  IF mo \in 1..12 /\ d \in 1..DaysIn(y, mo) /\ h \in 0..23 /\ mi \in 0..59
             THEN Ok([year |-> y, month |-> mo, day |-> d, hour |-> h, minute |-> mi])
             ELSE Raise("ValueError")
    ELSE Raise("ParserError")

\* Arrow.__lt__
Before(a, b) ==
    LET key(t) == (((t.year * 12 + t.month) * 31 + t.day) * 24 + t.hour) * 60 + t.minute
    IN  key(a) < key(b)

\* mutant: the date is read month first, m[1] as the month and m[2] as the day
construct_timestamp_MonthFirst(d, t, yr) ==
    LET m == ReMatch(REGEXPR_Date, d)
    IN  IF m = NoMatch THEN Raise("TypeError")
        ELSE LET m1 == SubSeq(d, 1, m[1])
                 m2 == SubSeq(d, m[2] + 1, m[3])
                 date_str == IntToStr(yr) \o <<"-">> \o zfill(m1, 2)
                             \o <<"-">> \o zfill(m2, 2)
             IN  ArrowGet(date_str \o <<" ">> \o t)

\* construct_timestamp(date, time), with arrow.get().year = yr
construct_timestamp(d, t, yr) ==
    LET m == ReMatch(REGEXPR_Date, d)
    IN  IF m = NoMatch THEN Raise("TypeError")
        ELSE LET m1 == SubSeq(d, 1, m[1])
                 m2 == SubSeq(d, m[2] + 1, m[3])
                 date_str == IntToStr(yr) \o <<"-">> \o zfill(m2, 2)
                             \o <<"-">> \o zfill(m1, 2)
             IN  ArrowGet(date_str \o <<" ">> \o t)

-----------------------------------------------------------------------------
(* The parsed page.  An element of body > center is                        *)
(*   [name, role, tr]: its tag name, the part it plays on the schedule     *)
(*   page (which the program never reads), and its first row: absent, or   *)
(*   the row's contents, each a text node or a td cell                     *)
(*   [kind, string, font, a] with .string, .font.string and .a.string.     *)
(* NoTag is an absent child tag (the attribute is None).                   *)

NoTag == <<"NoTag">>

NoTr == [none |-> TRUE, contents |-> <<>>]

Tr(nodes) == [none |-> FALSE, contents |-> nodes]

Txt(s) == [kind |-> "text", string |-> s, font |-> NoTag, a |-> NoTag]

Td(s) == [kind |-> "td", string |-> s, font |-> NoTag, a |-> NoTag]

TdFont(s) == [kind |-> "td", string |-> None, font |-> s, a |-> NoTag]

TdA(s) == [kind |-> "td", string |-> s, font |-> NoTag, a |-> s]

NL == <<"\n">>

TableName == <<"t", "a", "b", "l", "e">>

Table(role, tr) == [name |-> TableName, role |-> role, tr |-> tr]

BrElement == [name |-> <<"b", "r">>, role |-> "other", tr |-> NoTr]

HeaderTable == Table("header", NoTr)

WeekTable ==
    Table("week", Tr(<<Txt(NL), TdFont(<<"\r", "\n", "W", "e", "e", "k", "\r", "\n">>), Txt(NL)>>))

DayTable == Table("day", Tr(<<TdFont(<<"M", "o", "n">>)>>))

TrailerTable == Table("trailer", Tr(<<Txt(NL), Td(<<"2", "0", "0", "B">>), Td(<<"C", "3", "0", "0">>)>>))

DetailRow(time_range, room, code, descr) ==
    Table("detail", Tr(<<Txt(NL), Td(<<>>), Td(time_range), Td(room), TdA(code), Td(descr), Txt(NL)>>))

DatesRow(cells) == Table("dates", Tr(<<Txt(NL)>> \o cells))

Str_200B == <<"2", "0", "0", "B">>

Str_H00A0a == <<"H", "0", "0", "A", "0", "a">>

Str_Intro == <<"I", "n", "t", "r", "o", " ", "t", "o", " ", "S", "y", "s", "t", "e", "m", "s">>

Str_IntroDescription ==
    <<"I", "n", "t", "r", "o", " ", "t", "o", " ", "S", "y", "s", "t", "e", "m", "s",
      " ", "(", "H", "0", "0", "A", "0", "a", ")">>

Str_LabDescription == <<"L", "a", "b", " ", "(", "H", "0", "1", "B", ")">>

Str_C300 == <<"C", "3", "0", "0">>

\* "09:00 to 10:00", "200B", "H00A0a", "Intro to Systems"
DetailTo ==
    DetailRow(<<"0", "9", ":", "0", "0", " ", "t", "o", " ", "1", "0", ":", "0", "0">>,
              Str_200B, Str_H00A0a, Str_Intro)

\* the same row with "09:00 - 10:00"
DetailDash ==
    DetailRow(<<"0", "9", ":", "0", "0", " ", "-", " ", "1", "0", ":", "0", "0">>,
              Str_200B, Str_H00A0a, Str_Intro)

\* "\r\n14:00 tot 16:30\r\n", " C300 ", "H01B", "\nLab\n": the page's padding
DetailTot ==
    DetailRow(<<"\r", "\n", "1", "4", ":", "0", "0", " ", "t", "o", "t", " ", "1", "6", ":", "3", "0", "\r", "\n">>,
              <<" ", "C", "3", "0", "0", " ">>, <<"H", "0", "1", "B">>, <<"\n", "L", "a", "b", "\n">>)

\* "10:00 to 09:00": the times in reverse order
DetailReversed ==
    DetailRow(<<"1", "0", ":", "0", "0", " ", "t", "o", " ", "0", "9", ":", "0", "0">>,
              <<" ", "C", "3", "0", "0", " ">>, <<"H", "0", "1", "B">>, <<"\n", "L", "a", "b", "\n">>)

\* "invalid"
DetailInvalid ==
    DetailRow(<<"i", "n", "v", "a", "l", "i", "d">>, Str_200B, Str_H00A0a, Str_Intro)

\* ["18.03", "25.03"]
DatesTwo == DatesRow(<<Td(<<"1", "8", ".", "0", "3">>), Td(<<"2", "5", ".", "0", "3">>)>>)

\* [None, "5.3", None]
DatesOne == DatesRow(<<Td(None), Td(<<"5", ".", "3">>), Td(None)>>)

\* [None, None]
DatesEmpty == DatesRow(<<Td(None), Td(None)>>)

\* ["18-03"]
DatesMalformed == DatesRow(<<Td(<<"1", "8", "-", "0", "3">>)>>)

-----------------------------------------------------------------------------
(* KULpubScheduleToICS.py *)

UpperCase ==
    <<"A", "B", "C", "D", "E", "F", "G", "H", "I", "J", "K", "L", "M", "N",
      "O", "P", "Q", "R", "S", "T", "U", "V", "W", "X", "Y", "Z">>

LowerCase ==
    <<"a", "b", "c", "d", "e", "f", "g", "h", "i", "j", "k", "l", "m", "n",
      "o", "p", "q", "r", "s", "t", "u", "v", "w", "x", "y", "z">>

\* str.lower()
Lower(s) ==
    [i \in 1..Len(s) |->
        IF \E k \in 1..Len(UpperCase) : UpperCase[k] = s[i]
        THEN LowerCase[CHOOSE k \in 1..Len(UpperCase) : UpperCase[k] = s[i]]
        ELSE s[i]]

\* lst[i] of a Python list: counted from 0, from the end when negative
Index(lst, i) ==
    IF 0 <= i /\ i < Len(lst) THEN Ok(lst[i + 1])
    ELSE IF i < 0 /\ -i <= Len(lst) THEN Ok(lst[Len(lst) + i + 1])
    ELSE Raise("IndexError")

\* tr.find_all('td', recursive=False)
FindAllTd(tr) == SelectSeq(tr.contents, LAMBDA n : n.kind = "td")

\* is_week_row(tb_el): "True", "False", or "None" when the condition chain
\* falls through without a return
is_week_row(tb_el) ==
    IF Lower(tb_el.name) # TableName THEN Ok("False")
    ELSE IF tb_el.tr.none THEN Ok("False")
    ELSE LET c0 == Index(tb_el.tr.contents, 0)
         IN  IF ~c0.ok THEN c0
             ELSE LET c1 == IF c0.val.string = NL
                            THEN Index(tb_el.tr.contents, 1) ELSE c0
                  IN  IF ~c1.ok THEN c1
                      ELSE IF c1.val.kind # "text" /\ c1.val.font # NoTag
                           THEN LET s == sanitize_string(c1.val.font)
                                IN  IF ~s.ok THEN s
                                    ELSE IF s.val = <<"W", "e", "e", "k">>
                                         THEN Ok("True") ELSE Ok("None")
                           ELSE Ok("None")

\* mutant: only an explicit False counts as false, so a fall-through counts as true
Truthy_NotFalse(v) == v # "False"

\* the truth value an if statement gives a return value
Truthy(v) == v = "True"

RECURSIVE find_week_row(_, _)
\* find_week_row(table_lst, pos): [none, int] is None or the index found
find_week_row(table_lst, pos) ==
    IF pos >= Len(table_lst) THEN Ok([none |-> TRUE, int |-> 0])
    ELSE LET w == is_week_row(table_lst[pos + 1])
         IN  IF ~w.ok THEN w
             ELSE IF Truthy(w.val) THEN Ok([none |-> FALSE, int |-> pos])
             ELSE find_week_row(table_lst, pos + 1)

\* calevent.CalEvent(description, location, dt_start, dt_stop)
CalEvent(description, location, dt_start, dt_stop) ==
    [description |-> description, location |-> location,
     dt_start |-> dt_start, dt_stop |-> dt_stop]

\* lines 91-94 of process_event_rows: the four fields of the detail row
DetailFields(event_detail_row) ==
    LET c1 == Index(event_detail_row, 1)
        c2 == Index(event_detail_row, 2)
        c3 == Index(event_detail_row, 3)
        c4 == Index(event_detail_row, 4)
        time_range_str == sanitize_string(c1.val.string)
        room_str == sanitize_string(c2.val.string)
        course_code_str == sanitize_string(c3.val.a)
        course_descr_str == sanitize_string(c4.val.string)
    IN  IF ~c1.ok THEN c1 ELSE IF ~time_range_str.ok THEN time_range_str
        ELSE IF ~c2.ok THEN c2 ELSE IF ~room_str.ok THEN room_str
        ELSE IF ~c3.ok THEN c3
        ELSE IF c3.val.a = NoTag THEN Raise("AttributeError")
        ELSE IF ~course_code_str.ok THEN course_code_str
        ELSE IF ~c4.ok THEN c4 ELSE IF ~course_descr_str.ok THEN course_descr_str
        ELSE Ok([time_range_str |-> time_range_str.val, room_str |-> room_str.val,
                 course_code_str |-> course_code_str.val,
                 course_descr_str |-> course_descr_str.val])

\* mutant: the empty cells are not filtered out
DateStrings_KeepEmpty(event_dates_row) ==
    [i \in 1..Len(event_dates_row) |-> event_dates_row[i].string]

\* line 98: the strings of the date cells that have one
DateStrings(event_dates_row) ==
    LET cells == SelectSeq(event_dates_row, LAMBDA el : el.string # None)
    IN  [i \in 1..Len(cells) |-> cells[i].string]

\* mutant: a failed match is not subscripted but gives two empty strings
TimeRange_Unchecked(time_range_str) ==
    LET m == ReMatch(REGEXPR_TIME_RANGE, time_range_str)
    IN  IF m = NoMatch THEN Ok([time_start_str |-> <<>>, time_stop_str |-> <<>>])
        ELSE Ok([time_start_str |-> SubSeq(time_range_str, 1, m[3]),
                 time_stop_str  |-> SubSeq(time_range_str, m[6] + 1, m[9])])

\* mutant: the two groups of the match are taken in the wrong order
TimeRange_Swapped(time_range_str) ==
    LET m == ReMatch(REGEXPR_TIME_RANGE, time_range_str)
    IN  IF m = NoMatch THEN Raise("TypeError")
        ELSE Ok([time_start_str |-> SubSeq(time_range_str, m[6] + 1, m[9]),
                 time_stop_str  |-> SubSeq(time_range_str, 1, m[3])])

\* lines 101-103: m = re.match(...); m[1]; m[2].  Subscripting None raises.
TimeRange(time_range_str) ==
    LET m == ReMatch(REGEXPR_TIME_RANGE, time_range_str)
    IN  IF m = NoMatch THEN Raise("TypeError")
        ELSE Ok([time_start_str |-> SubSeq(time_range_str, 1, m[3]),
                 time_stop_str  |-> SubSeq(time_range_str, m[6] + 1, m[9])])

RECURSIVE BuildEvents(_, _, _, _, _, _)
\* lines 105-108: the list comprehension, one CalEvent per date string
BuildEvents(description, room_str, dates, time_start_str, time_stop_str, yr) ==
    IF Len(dates) = 0 THEN Ok(<<>>)
    ELSE LET start == construct_timestamp(Head(dates), time_start_str, yr)
             stop  == construct_timestamp(Head(dates), time_stop_str, yr)
             rest  == BuildEvents(description, room_str, Tail(dates),
                                  time_start_str, time_stop_str, yr)
         IN  IF ~start.ok THEN start
             ELSE IF ~stop.ok THEN stop
             ELSE IF ~rest.ok THEN rest
             ELSE Ok(<<CalEvent(description, room_str, start.val, stop.val)>> \o rest.val)

\* process_event_rows(table_lst, pos), with arrow.get().year = yr
process_event_rows(table_lst, pos, yr) ==
    LET t1 == Index(table_lst, pos)
        t2 == Index(table_lst, pos + 1)
    IN  IF ~t1.ok THEN t1
        ELSE IF t1.val.tr.none THEN Raise("AttributeError")
        ELSE IF ~t2.ok THEN t2
        ELSE IF t2.val.tr.none THEN Raise("AttributeError")
        ELSE LET f == DetailFields(FindAllTd(t1.val.tr))
                 date_strings_it == DateStrings(FindAllTd(t2.val.tr))
                 m == TimeRange(f.val.time_range_str)
             IN  IF ~f.ok THEN f
                 ELSE IF ~m.ok THEN m
                 ELSE BuildEvents(f.val.course_descr_str \o <<" ", "(">>
                                      \o f.val.course_code_str \o <<")">>,
                                  f.val.room_str, date_strings_it,
                                  m.val.time_start_str, m.val.time_stop_str, yr)

-----------------------------------------------------------------------------
(* calevent.py *)

\* mutant: the entries have no identity of their own and are told apart by
\* their fields
conv_to_ics_event_ByValue(event, uid) ==
    [uid |-> 0, name |-> event.description, begin |-> event.dt_start,
     end |-> event.dt_stop, location |-> event.location]

\* conv_to_ics_event(event); uid stands for the identity of the new
\* ics.Event(), which is what the calendar's event set tells entries apart by
conv_to_ics_event(event, uid) ==
    [uid |-> uid, name |-> event.description, begin |-> event.dt_start,
     end |-> event.dt_stop, location |-> event.location]

\* conv_to_ics_calendar(e_lst): c.events is a set
conv_to_ics_calendar(e_lst) ==
    {conv_to_ics_event(e_lst[i], i) : i \in 1..Len(e_lst)}

-----------------------------------------------------------------------------
(* The pages of the model: up to MaxGroups fragments between an optional   *)
(* page head and an optional trailer table.  The first fragments are the   *)
(* event groups of the schedule page (a week row and a day row before the  *)
(* first event of a day, none before a later event of that day); the       *)
(* others are pages that deviate from it.                                  *)

MaxGroups == 2

Fragments ==
    { <<WeekTable, DayTable, DetailTo, DatesTwo>>,
      <<DetailTot, DatesOne>>,
      <<WeekTable, DayTable, DetailTot, DatesEmpty>>,
      <<DetailReversed, DatesTwo>>,
      <<DetailInvalid, DatesEmpty>>,
      <<DetailInvalid, DatesTwo>>,
      <<WeekTable, DayTable, DetailDash, DatesTwo>>,
      <<DetailTo, DatesMalformed>>,
      <<DayTable, DetailTo, DatesTwo>>,
      <<WeekTable, DayTable, DetailTo>>,
      <<WeekTable>> }

PageHeads == { <<>>, <<BrElement, HeaderTable>> }

PageTails == { <<TrailerTable>>, <<>> }

RECURSIVE Flatten(_)
Flatten(ss) == IF Len(ss) = 0 THEN <<>> ELSE Head(ss) \o Flatten(Tail(ss))

FragmentSeqs == UNION {[1..n -> Fragments] : n \in 0..MaxGroups}

NoCenter == [center |-> FALSE, children |-> <<>>]

Pages ==
    {[center |-> TRUE, children |-> h \o Flatten(gs) \o t] :
        h \in PageHeads, gs \in FragmentSeqs, t \in PageTails}
    \cup {NoCenter}

Years == {2024, 2025}

NoTimestamp == [ok |-> FALSE, val |-> <<>>, err |-> "pending"]

-----------------------------------------------------------------------------
(* main *)

Init ==
    /\ page \in Pages
    /\ year \in Years
    /\ tables_lst = <<>>
    /\ event_list = <<>>
    /\ cur_ind = 0
    /\ stop_ind = 0
    /\ pc = "start"
    /\ err = "none"
    /\ failed_at = "none"
    /\ ics_file = "unchanged"
    /\ calendar = {}
    /\ date = <<>>
    /\ time = <<>>
    /\ timestamp = NoTimestamp

\* an uncaught exception ends the run
Crash(e) ==
    /\ pc' = "crashed"
    /\ err' = e
    /\ failed_at' = pc

Continue(next) ==
    /\ pc' = next
    /\ UNCHANGED <<err, failed_at>>

\* line 43: requests.get, which returns the page or raises
Fetch ==
    /\ pc = "start"
    /\ \E reached \in BOOLEAN :
          IF reached THEN Continue("fetched") ELSE Crash("ConnectionError")
    /\ UNCHANGED <<page, year, tables_lst, event_list, cur_ind, stop_ind,
                   ics_file, calendar, date, time, timestamp>>

\* mutant: the output file is opened before the scan
Parse_OpensFile ==
    /\ pc = "fetched"
    /\ IF page.center
       THEN /\ tables_lst' = SelectSeq(page.children, LAMBDA el : el.name = TableName)
            /\ Continue("parsed")
       ELSE /\ Crash("AttributeError")
            /\ UNCHANGED tables_lst
    /\ event_list' = <<>>
    /\ ics_file' = "truncated"
    /\ UNCHANGED <<page, year, cur_ind, stop_ind, calendar, date, time, timestamp>>

\* lines 44-63: parsed.body.center, its table children, the empty event list
Parse ==
    /\ pc = "fetched"
    /\ IF page.center
       THEN /\ tables_lst' = SelectSeq(page.children, LAMBDA el : el.name = TableName)
            /\ Continue("parsed")
       ELSE /\ Crash("AttributeError")
            /\ UNCHANGED tables_lst
    /\ event_list' = <<>>
    /\ UNCHANGED <<page, year, cur_ind, stop_ind, ics_file, calendar,
                   date, time, timestamp>>

\* mutant: the stop index is the length of the list, the trailer included
FindStart_StopAtLen ==
    /\ pc = "parsed"
    /\ LET r == find_week_row(tables_lst, 0)
       IN  IF ~r.ok
           THEN Crash(r.err) /\ UNCHANGED <<cur_ind, stop_ind>>
           ELSE IF r.val.none
           THEN Crash("TypeError") /\ UNCHANGED <<cur_ind, stop_ind>>
           ELSE /\ cur_ind' = r.val.int + 2
                /\ stop_ind' = Len(tables_lst)
                /\ Continue("loop")
    /\ UNCHANGED <<page, year, tables_lst, event_list, ics_file, calendar,
                   date, time, timestamp>>

\* lines 66-67: cur_ind = find_week_row(tables_lst) + 2; None + 2 raises
FindStart ==
    /\ pc = "parsed"
    /\ LET r == find_week_row(tables_lst, 0)
       IN  IF ~r.ok
           THEN Crash(r.err) /\ UNCHANGED <<cur_ind, stop_ind>>
           ELSE IF r.val.none
           THEN Crash("TypeError") /\ UNCHANGED <<cur_ind, stop_ind>>
           ELSE /\ cur_ind' = r.val.int + 2
                /\ stop_ind' = Len(tables_lst) - 1
                /\ Continue("loop")
    /\ UNCHANGED <<page, year, tables_lst, event_list, ics_file, calendar,
                   date, time, timestamp>>

\* mutant: only the week row is skipped, not the day row after it
LoopTest_SkipOne ==
    /\ pc = "loop"
    /\ cur_ind < stop_ind
    /\ LET t == Index(tables_lst, cur_ind)
           w == is_week_row(t.val)
       IN  IF ~t.ok THEN Crash(t.err) /\ UNCHANGED cur_ind
           ELSE IF ~w.ok THEN Crash(w.err) /\ UNCHANGED cur_ind
           ELSE /\ cur_ind' = IF Truthy(w.val) THEN cur_ind + 1 ELSE cur_ind
                /\ Continue("body")
    /\ UNCHANGED <<page, year, tables_lst, event_list, stop_ind, ics_file,
                   calendar, date, time, timestamp>>

\* lines 69-71: the loop test, then the skip of a week row and its day row
LoopTest ==
    /\ pc = "loop"
    /\ cur_ind < stop_ind
    /\ LET t == Index(tables_lst, cur_ind)
           w == is_week_row(t.val)
       IN  IF ~t.ok THEN Crash(t.err) /\ UNCHANGED cur_ind
           ELSE IF ~w.ok THEN Crash(w.err) /\ UNCHANGED cur_ind
           ELSE /\ cur_ind' = IF Truthy(w.val) THEN cur_ind + 2 ELSE cur_ind
                /\ Continue("body")
    /\ UNCHANGED <<page, year, tables_lst, event_list, stop_ind, ics_file,
                   calendar, date, time, timestamp>>

\* lines 73-74: event_list += process_event_rows(tables_lst, cur_ind); cur_ind += 2
ProcessEvent ==
    /\ pc = "body"
    /\ LET r == process_event_rows(tables_lst, cur_ind, year)
       IN  IF ~r.ok
           THEN Crash(r.err) /\ UNCHANGED <<event_list, cur_ind>>
           ELSE /\ event_list' = event_list \o r.val
                /\ cur_ind' = cur_ind + 2
                /\ Continue("loop")
    /\ UNCHANGED <<page, year, tables_lst, stop_ind, ics_file, calendar,
                   date, time, timestamp>>

\* line 69 false, line 76: the loop ends and the list is printed
LoopExit ==
    /\ pc = "loop"
    /\ ~(cur_ind < stop_ind)
    /\ Continue("scanned")
    /\ UNCHANGED <<page, year, tables_lst, event_list, cur_ind, stop_ind,
                   ics_file, calendar, date, time, timestamp>>

\* line 78: open(ICS_FILENAME, 'w') truncates the file
OpenFile ==
    /\ pc = "scanned"
    /\ ics_file' = "truncated"
    /\ Continue("opened")
    /\ UNCHANGED <<page, year, tables_lst, event_list, cur_ind, stop_ind,
                   calendar, date, time, timestamp>>

\* an ics release may refuse an end before the begin when e.end is set
EndRefused(e_lst) ==
    \E i \in 1..Len(e_lst) : Before(e_lst[i].dt_stop, e_lst[i].dt_start)

\* line 79: ics_file.writelines(calevent.conv_to_ics_calendar(event_list))
WriteCalendar ==
    /\ pc = "opened"
    /\ \/ /\ calendar' = conv_to_ics_calendar(event_list)
          /\ ics_file' = "written"
          /\ Continue("done")
       \/ /\ EndRefused(event_list)
          /\ Crash("ValueError")
          /\ UNCHANGED <<calendar, ics_file>>
    /\ UNCHANGED <<page, year, tables_lst, event_list, cur_ind, stop_ind,
                   date, time, timestamp>>

Next ==
    \/ Fetch
    \/ Parse
    \/ FindStart
    \/ LoopTest
    \/ ProcessEvent
    \/ LoopExit
    \/ OpenFile
    \/ WriteCalendar

Spec == Init /\ [][Next]_vars

-----------------------------------------------------------------------------
(* construct_timestamp on its own: one call on a date string, a time       *)
(* string and a current year.                                              *)

DateInputs ==
    { <<"1", "5", ".", "0", "3">>,                          \* "15.03"
      <<"5", ".", "3">>,                                    \* "5.3"
      <<"1", "8", ".", "0", "3">>,                          \* "18.03"
      <<"2", "9", ".", "0", "2">>,                          \* "29.02"
      <<"3", "1", ".", "0", "4">>,                          \* "31.04"
      <<"1", "8", "-", "0", "3">>,                          \* "18-03"
      <<"M", "o", "n">>,                                    \* "Mon"
      <<>>,                                                 \* ""
      <<"1", "5", ".", "0", "3", ".", "2", "0", "2", "5">>, \* "15.03.2025"
      <<"1", "5", ".", "0", "3", "x">> }                    \* "15.03x"

TimeInputs ==
    { <<"0", "9", ":", "3", "0">>,     \* "09:30"
      <<"0", "0", ":", "0", "0">>,     \* "00:00"
      <<"1", "4", ":", "0", "5">>,     \* "14:05"
      <<"2", "3", ":", "5", "9">> }    \* "23:59"

InitTimestamp ==
    /\ date \in DateInputs
    /\ time \in TimeInputs
    /\ year \in Years
    /\ timestamp = NoTimestamp
    /\ pc = "ts_call"
    /\ page = NoCenter
    /\ tables_lst = <<>>
    /\ event_list = <<>>
    /\ cur_ind = 0
    /\ stop_ind = 0
    /\ err = "none"
    /\ failed_at = "none"
    /\ ics_file = "unchanged"
    /\ calendar = {}

\* timestamp = construct_timestamp(date, time)
ConstructTimestamp ==
    /\ pc = "ts_call"
    /\ timestamp' = construct_timestamp(date, time, year)
    /\ pc' = "ts_done"
    /\ UNCHANGED <<page, year, tables_lst, event_list, cur_ind, stop_ind, err,
                   failed_at, ics_file, calendar, date, time>>

NextTimestamp == ConstructTimestamp

SpecTimestamp == InitTimestamp /\ [][NextTimestamp]_vars

-----------------------------------------------------------------------------
(* conv_to_ics_calendar on its own: one call on a list of up to MaxEvents  *)
(* CalEvents, which may repeat a record.                                   *)

MaxEvents == 3

At(y, mo, d, h, mi) == [year |-> y, month |-> mo, day |-> d, hour |-> h, minute |-> mi]

EventPool ==
    { CalEvent(Str_IntroDescription, Str_200B, At(2024, 3, 18, 9, 0), At(2024, 3, 18, 10, 0)),
      CalEvent(Str_IntroDescription, Str_200B, At(2024, 3, 25, 9, 0), At(2024, 3, 25, 10, 0)),
      CalEvent(Str_LabDescription, Str_C300, At(2024, 3, 5, 14, 0), At(2024, 3, 5, 14, 0)),
      CalEvent(Str_LabDescription, Str_C300, At(2024, 3, 18, 10, 0), At(2024, 3, 18, 9, 0)) }

InitConv ==
    /\ event_list \in UNION {[1..n -> EventPool] : n \in 0..MaxEvents}
    /\ calendar = {}
    /\ pc = "conv_call"
    /\ err = "none"
    /\ failed_at = "none"
    /\ year \in Years
    /\ page = NoCenter
    /\ tables_lst = <<>>
    /\ cur_ind = 0
    /\ stop_ind = 0
    /\ ics_file = "unchanged"
    /\ date = <<>>
    /\ time = <<>>
    /\ timestamp = NoTimestamp

\* calendar = conv_to_ics_calendar(event_list)
ConvCall ==
    /\ pc = "conv_call"
    /\ \/ /\ calendar' = conv_to_ics_calendar(event_list)
          /\ Continue("conv_done")
       \/ /\ EndRefused(event_list)
          /\ Crash("ValueError")
          /\ UNCHANGED calendar
    /\ UNCHANGED <<page, year, tables_lst, event_list, cur_ind, stop_ind,
                   ics_file, date, time, timestamp>>

NextConv == ConvCall

SpecConv == InitConv /\ [][NextConv]_vars

-----------------------------------------------------------------------------
(* What the properties speak of: the layout of the schedule page, read off *)
(* the parts the tables play, and the records a page stands for, written   *)
(* out by hand for each row of the model and not computed by the program's *)
(* parsing.                                                                *)

Role(seq, i) == IF i \in 1..Len(seq) THEN seq[i].role ELSE "none"

RECURSIVE GroupsFrom(_, _)
\* seq from its i-th table on is event groups, each [week, day, detail, dates]
\* or [detail, dates], and then the trailer table as the last table
GroupsFrom(seq, i) ==
    IF i >= Len(seq) THEN i = Len(seq) /\ Role(seq, i) = "trailer"
    ELSE \/ /\ Role(seq, i) = "week" /\ Role(seq, i + 1) = "day"
            /\ Role(seq, i + 2) = "detail" /\ Role(seq, i + 3) = "dates"
            /\ GroupsFrom(seq, i + 4)
         \/ /\ Role(seq, i) = "detail" /\ Role(seq, i + 1) = "dates"
            /\ GroupsFrom(seq, i + 2)

\* the page's tables follow the layout of src/KULpubScheduleToICS.py:46-55:
\* after the tables of the page head, event groups that begin with a week row
\* and a day row on the first event of a day, and the trailer table last
FollowsLayout(seq) ==
    \E k \in 1..Len(seq) :
        /\ \A j \in 1..(k - 1) : Role(seq, j) = "header"
        /\ Role(seq, k) = "week"
        /\ GroupsFrom(seq, k)

\* the rows whose time range is HH:MM <word> HH:MM / whose cells are DD.MM or empty
WellFormedRows(seq) ==
    \A i \in 1..Len(seq) :
        /\ Role(seq, i) = "detail" => seq[i] \in {DetailTo, DetailTot, DetailReversed}
        /\ Role(seq, i) = "dates" => seq[i] \in {DatesTwo, DatesOne, DatesEmpty}

\* the record a detail row stands for
ExpectedDetail(t) ==
    CASE t = DetailTo ->
           [description |-> Str_IntroDescription, location |-> Str_200B,
            start |-> <<9, 0>>, stop |-> <<10, 0>>]
      [] t = DetailTot ->
           [description |-> Str_LabDescription, location |-> Str_C300,
            start |-> <<14, 0>>, stop |-> <<16, 30>>]
      [] t = DetailReversed ->
           [description |-> Str_LabDescription, location |-> Str_C300,
            start |-> <<10, 0>>, stop |-> <<9, 0>>]

\* the <<day, month>> of the non-empty cells of a dates row
ExpectedDays(t) ==
    CASE t = DatesTwo -> << <<18, 3>>, <<25, 3>> >>
      [] t = DatesOne -> << <<5, 3>> >>
      [] t = DatesEmpty -> <<>>

ExpectedGroup(detail, dates, yr) ==
    LET d == ExpectedDetail(detail)
        days == ExpectedDays(dates)
    IN  [i \in 1..Len(days) |->
            CalEvent(d.description, d.location,
                     At(yr, days[i][2], days[i][1], d.start[1], d.start[2]),
                     At(yr, days[i][2], days[i][1], d.stop[1], d.stop[2]))]

RECURSIVE ExpectedEvents(_, _, _)
\* the records of the groups of seq from its i-th table on, in table order
ExpectedEvents(seq, i, yr) ==
    IF i >= Len(seq) THEN <<>>
    ELSE IF Role(seq, i) = "detail"
         THEN ExpectedGroup(seq[i], seq[i + 1], yr) \o ExpectedEvents(seq, i + 2, yr)
         ELSE ExpectedEvents(seq, i + 1, yr)

\* the number of date cells of the page that hold a date
NonEmptyDateCells(seq) ==
    LET cells == UNION {{<<i, j>> : j \in 1..Len(seq[i].tr.contents)} : i \in 1..Len(seq)}
    IN  Cardinality({c \in cells :
                        /\ seq[c[1]].role = "dates"
                        /\ seq[c[1]].tr.contents[c[2]].kind = "td"
                        /\ seq[c[1]].tr.contents[c[2]].string # None})

\* the scan loop has ended without an exception
ScanReturned ==
    \/ pc \in {"scanned", "opened", "done"}
    \/ pc = "crashed" /\ failed_at = "opened"

\* an exception ended the run in the week-row search or in the scan loop
ScanFailed == pc = "crashed" /\ failed_at \in {"parsed", "loop", "body"}

-----------------------------------------------------------------------------
(* The properties *)

\* C1: on every page that follows the layout (groups with the week and day
\* rows on the first event of a day only, then the trailer), the scan does not
\* fail, and the list it returns has as many records as the dates rows have
\* non-empty cells; a dates row with only empty cells adds none.
C1_OneRecordPerDateCell ==
    (FollowsLayout(tables_lst) /\ WellFormedRows(tables_lst)) =>
        /\ ~ScanFailed
        /\ ScanReturned => Len(event_list) = NonEmptyDateCells(tables_lst)

\* C1 witness: a scan has returned on a page whose first group has an empty
\* dates row and whose second group has no week and day rows
C1_Witness ==
    /\ pc = "scanned"
    /\ FollowsLayout(tables_lst) /\ WellFormedRows(tables_lst)
    /\ \E i \in 1..Len(tables_lst) : tables_lst[i] = DatesEmpty
    /\ \E i \in 2..Len(tables_lst) :
          Role(tables_lst, i) = "detail" /\ Role(tables_lst, i - 1) = "dates"
    /\ Len(event_list) = 1

\* a week row after the first group: the scan loop meets it at its cursor
LaterWeekRow(seq) ==
    \E i \in 2..Len(seq) : Role(seq, i) = "week" /\ Role(seq, i - 1) = "dates"

\* C2: whenever the loop test finds a week row at the cursor, the cursor moves
\* on by 2 before the event rows are processed (and stays otherwise); on a page
\* that follows the layout the two tables handed to process_event_rows are
\* always a detail row and its dates row, never a week or day row.
C2_WeekRowsSkipped ==
    /\ [][(pc = "loop" /\ pc' = "body") =>
            cur_ind' = IF Role(tables_lst, cur_ind + 1) = "week"
                       THEN cur_ind + 2 ELSE cur_ind]_vars
    /\ []((FollowsLayout(tables_lst) /\ pc = "body") =>
            /\ Role(tables_lst, cur_ind + 1) = "detail"
            /\ Role(tables_lst, cur_ind + 2) = "dates")

\* C2 witness: the loop has skipped a week row and its day row that follow an
\* earlier group, and stands before the event rows after them
C2_Witness ==
    /\ pc = "body"
    /\ FollowsLayout(tables_lst)
    /\ Role(tables_lst, cur_ind - 1) = "week"
    /\ Role(tables_lst, cur_ind) = "day"
    /\ Role(tables_lst, cur_ind - 2) = "dates"
    /\ Role(tables_lst, cur_ind + 1) = "detail"

\* C5: the output file is touched only once the scan loop has ended with the
\* whole event list built, and a run that fails in the fetch, the parse, the
\* week-row search or the scan leaves the file unchanged.
C5_FileWrittenAfterScan ==
    /\ ics_file # "unchanged" =>
          /\ pc \in {"opened", "done"} \/ (pc = "crashed" /\ failed_at = "opened")
          /\ ~(cur_ind < stop_ind)
    /\ (pc = "crashed" /\ failed_at \in {"start", "fetched", "parsed", "loop", "body"}) =>
          ics_file = "unchanged"

\* C5 witness: the scan has failed after it had found events, and the file is
\* as it was
C5_Witness ==
    /\ pc = "crashed"
    /\ failed_at = "body"
    /\ Len(event_list) > 0
    /\ ics_file = "unchanged"

\* C6: when no table of the page is a week row, find_week_row returns None,
\* the run ends with the TypeError of None + 2 before any table is parsed as
\* an event row, and no record is produced; a table for which is_week_row
\* falls through (a day row, a detail row) does not count as a week row.
C6_NoWeekRowIsFatal ==
    (\A i \in 1..Len(tables_lst) : Role(tables_lst, i) # "week") =>
        /\ pc \in {"start", "fetched", "parsed", "crashed"}
        /\ pc = "crashed" =>
              /\ failed_at \in {"start", "fetched", "parsed"}
              /\ failed_at = "parsed" => err = "TypeError"
        /\ event_list = <<>>

\* C6 witness: the run has ended in the week-row search on a page with a day
\* row and event rows but no week row
C6_Witness ==
    /\ pc = "crashed"
    /\ failed_at = "parsed"
    /\ err = "TypeError"
    /\ \E i \in 1..Len(tables_lst) : Role(tables_lst, i) = "day"
    /\ \E i \in 1..Len(tables_lst) : Role(tables_lst, i) = "detail"
    /\ \A i \in 1..Len(tables_lst) : Role(tables_lst, i) # "week"

\* the indices the scan reads stay below the trailer, and the loop ends with
\* the cursor on the stop index
CursorBelowTrailer ==
    /\ pc = "body" => cur_ind + 1 < stop_ind
    /\ pc = "scanned" => cur_ind = stop_ind

\* C10 as claimed: on every page with a week row whose last table is the
\* trailer, the scan reads no index at or past the trailer and ends with the
\* cursor on the stop index.
C10_AnyPageWithTrailer ==
    (/\ \E i \in 1..Len(tables_lst) : Role(tables_lst, i) = "week"
     /\ Role(tables_lst, Len(tables_lst)) = "trailer") => CursorBelowTrailer

\* C10 amended: on every page that follows the layout, the scan reads no
\* index at or past the trailer (cur_ind + 1 < stop_ind whenever event rows
\* are processed, also after a week-row skip) and ends with the cursor on the
\* stop index.
C10_LayoutKeepsCursorBelowTrailer ==
    FollowsLayout(tables_lst) => CursorBelowTrailer

\* C10 witness: the loop has ended on a page that follows the layout and has
\* a week row after its first group
C10_Witness ==
    /\ pc = "scanned"
    /\ FollowsLayout(tables_lst)
    /\ LaterWeekRow(tables_lst)
    /\ cur_ind = stop_ind

\* every record found so far starts before it ends
AllStartBeforeEnd ==
    \A i \in 1..Len(event_list) :
        Before(event_list[i].dt_start, event_list[i].dt_stop)

\* C3 as claimed: every record of the event list has dt_start < dt_stop,
\* whatever rows with a matching time range and DD.MM dates the page holds.
C3_StartBeforeEnd == AllStartBeforeEnd

\* the first time of every matching time range on the page is earlier than
\* the second
TimesAscend(seq) ==
    \A i \in 1..Len(seq) :
        seq[i] \in {DetailTo, DetailTot, DetailReversed} =>
            LET d == ExpectedDetail(seq[i])
            IN  d.start[1] * 60 + d.start[2] < d.stop[1] * 60 + d.stop[2]

\* C3 amended: every record has dt_start and dt_stop on the same date, and
\* dt_start < dt_stop when the first time of each time range on the page is
\* earlier than its second time (the program itself does not compare them).
C3_StartBeforeEndWhenTimesAscend ==
    /\ \A i \in 1..Len(event_list) :
          /\ event_list[i].dt_start.year = event_list[i].dt_stop.year
          /\ event_list[i].dt_start.month = event_list[i].dt_stop.month
          /\ event_list[i].dt_start.day = event_list[i].dt_stop.day
    /\ TimesAscend(tables_lst) => AllStartBeforeEnd

\* C3 witness: a scan has returned several records from rows whose times ascend
C3_Witness ==
    /\ pc = "scanned"
    /\ TimesAscend(tables_lst)
    /\ Len(event_list) >= 3
    /\ AllStartBeforeEnd

\* C4: when the detail row handed to process_event_rows has a time range that
\* does not match the pattern ("invalid", "09:00 - 10:00"), that step ends the
\* run with an exception and adds no record, whatever its dates row holds; and
\* no step is ever taken after an exception, so the scan does not go on to a
\* later group and returns no list.
C4_BadTimeRangeIsFatal ==
    /\ [][(/\ pc = "body"
           /\ Role(tables_lst, cur_ind + 1) = "detail"
           /\ tables_lst[cur_ind + 1] \in {DetailInvalid, DetailDash}) =>
             (pc' = "crashed" /\ event_list' = event_list)]_vars
    /\ [][pc # "crashed"]_vars

\* C4 witness: the run has ended with the TypeError of m[1] on the row
\* "invalid" whose dates row has only empty cells
C4_Witness ==
    /\ pc = "crashed"
    /\ failed_at = "body"
    /\ err = "TypeError"
    /\ Role(tables_lst, cur_ind + 2) = "dates"
    /\ tables_lst[cur_ind + 1] = DetailInvalid
    /\ tables_lst[cur_ind + 2] = DatesEmpty

\* the page of the end-to-end example: a week row, a day row, one detail row,
\* the dates row ["18.03", "25.03"], the trailer
ExamplePage(detail) == <<WeekTable, DayTable, detail, DatesTwo, TrailerTable>>

\* "Intro to Systems (H00A0a)" at "200B", 09:00-10:00 on 18.03 and then on 25.03
ExampleRecords ==
    << CalEvent(Str_IntroDescription, Str_200B, At(2024, 3, 18, 9, 0), At(2024, 3, 18, 10, 0)),
       CalEvent(Str_IntroDescription, Str_200B, At(2024, 3, 25, 9, 0), At(2024, 3, 25, 10, 0)) >>

\* the list a scan returns is the records of the page's groups in table order:
\* per group one record for each non-empty date cell, in cell order, all with
\* the group's description, location and times of day
GroupsInTableOrder ==
    (FollowsLayout(tables_lst) /\ WellFormedRows(tables_lst) /\ ScanReturned) =>
        event_list = ExpectedEvents(tables_lst, 1, year)

\* the run on the example page with the given detail row returns ExampleRecords
ExampleHolds(detail) ==
    (tables_lst = ExamplePage(detail) /\ year = 2024 /\ pc \notin {"parsed", "loop", "body"}) =>
        (ScanReturned /\ event_list = ExampleRecords)

SameFields(c, e) ==
    /\ c.name = e.description
    /\ c.begin = e.dt_start
    /\ c.end = e.dt_stop
    /\ c.location = e.location

DayMonth(d) ==
    CASE d = <<"1", "5", ".", "0", "3">> -> <<15, 3>>
      [] d = <<"5", ".", "3">> -> <<5, 3>>
      [] d = <<"1", "8", ".", "0", "3">> -> <<18, 3>>
      [] d = <<"2", "9", ".", "0", "2">> -> <<29, 2>>
      [] d = <<"3", "1", ".", "0", "4">> -> <<31, 4>>
      [] OTHER -> <<0, 0>>

\* the hour and minute of the time strings of the model
HourMinute(t) ==
    CASE t = <<"0", "9", ":", "3", "0">> -> <<9, 30>>
      [] t = <<"0", "0", ":", "0", "0">> -> <<0, 0>>
      [] t = <<"1", "4", ":", "0", "5">> -> <<14, 5>>
      [] t = <<"2", "3", ":", "5", "9">> -> <<23, 59>>

\* a date string DD.MM of a day the year has gives that day's timestamp
ValidDatesConverted ==
    (/\ pc = "ts_done"
     /\ DayMonth(date) # <<0, 0>>
     /\ DayMonth(date)[1] <= DaysIn(year, DayMonth(date)[2])) =>
        /\ timestamp.ok
        /\ timestamp.val = At(year, DayMonth(date)[2], DayMonth(date)[1],
                              HourMinute(time)[1], HourMinute(time)[2])

\* the date strings of the model at whose start re.match finds no DD.MM
NoDatePrefix == { <<"1", "8", "-", "0", "3">>, <<"M", "o", "n">>, <<>> }

\* C9 as claimed: construct_timestamp gives, for a date string DD.MM and a
\* time string HH:MM, the timestamp of that day and month of the current year
\* at that time, and fails for every date string that is not of the form DD.MM.
C9_TimestampOrFailure ==
    /\ ValidDatesConverted
    /\ (pc = "ts_done" /\ DayMonth(date) = <<0, 0>>) => ~timestamp.ok

\* C9 amended: construct_timestamp gives, for a date string DD.MM (one or two
\* digits each) of a day the current year has and a time string HH:MM, the
\* timestamp of that day and month of the current year at that time ("15.03",
\* "09:30" in 2024: 2024-03-15T09:30), and fails for a date string that does
\* not begin with DD.MM; text after DD.MM is ignored.
C9_TimestampOrFailureOnPrefix ==
    /\ ValidDatesConverted
    /\ (pc = "ts_done" /\ date \in NoDatePrefix) => ~timestamp.ok
    /\ (pc = "ts_done" /\ DayMonth(date) = <<0, 0>> /\ date \notin NoDatePrefix) =>
          /\ timestamp.ok
          /\ timestamp.val = At(year, 3, 15, HourMinute(time)[1], HourMinute(time)[2])

\* C9 witness: the call on "15.03" and "09:30" in 2024 has returned 2024-03-15T09:30
C9_Witness ==
    /\ pc = "ts_done"
    /\ date = <<"1", "5", ".", "0", "3">>
    /\ time = <<"0", "9", ":", "3", "0">>
    /\ year = 2024
    /\ timestamp.ok
    /\ timestamp.val = At(2024, 3, 15, 9, 30)

=============================================================================
